---- MODULE Spec2Model ----
(***************************************************************************)
(* Model of MacroSokobanEnv (src/src/environments.py): a Sokoban           *)
(* environment whose step is a macro-move, in forward or backward mode.    *)
(*                                                                         *)
(* A board is a tuple of cell codes in row-major order.  The base          *)
(* environment (gym_sokoban), the macro-move search (macro_move.py), the   *)
(* raw-board builder (utils.py) and the cell codes (variables.py) are not  *)
(* part of src/; they are modelled from the design document.               *)
(***************************************************************************)
EXTENDS Integers, Sequences, FiniteSets, TLC

VARIABLES forward, dim_room, max_steps, num_boxes,
          room_fixed, room_state, player_position,
          num_env_steps, boxes_on_target, states,
          reward_last, last, done, info, returned, last_change, source, calls,
          listed, computations,
          dataset_name, level, raised,
          phase, pending, box_searched, explored, to_visit, found

\* the arguments and the outcome of from_file
fileVars == <<dataset_name, level, raised>>

\* the position of a call of reachable_states() inside its loops
searchVars == <<phase, pending, box_searched, explored, to_visit, found>>

vars == <<forward, dim_room, max_steps, num_boxes,
          room_fixed, room_state, player_position,
          num_env_steps, boxes_on_target, states,
          reward_last, last, done, info, returned, last_change, source, calls,
          listed, computations, fileVars, searchVars>>

\* largest steps_limit an environment is constructed with
MaxSteps == 3

\* steps are issued until the counter reaches this value (beyond the limit)
MaxEnvSteps == 3

\* reachable_states is called at most this often between two board changes
MaxCalls == 2

\* cell codes
TYPE_LOOKUP ==
  [walls |-> 0, empty_space |-> 1, box_target |-> 2,
   box_on_target |-> 3, box_not_on_target |-> 4, player |-> 5]

\* value of self.states before the first computation
None == [is_none |-> TRUE, list |-> {}]

\* a list of boards (its order is immaterial here)
ListOf(S) == [is_none |-> FALSE, list |-> S]

\* the empty info dictionary of a step that is not done
EmptyInfo == [empty |-> TRUE]

(***************************************************************************)
(* Geometry of the grid                                                    *)
(***************************************************************************)
Rows(dim) == dim[1]

Cols(dim) == dim[2]

Cells(dim) == 1..(Rows(dim) * Cols(dim))

RowOf(dim, i) == ((i - 1) \div Cols(dim)) + 1

ColOf(dim, i) == ((i - 1) % Cols(dim)) + 1

Directions == {"up", "down", "left", "right"}

Opposite(d) ==
  CASE d = "up" -> "down"
    [] d = "down" -> "up"
    [] d = "left" -> "right"
    [] d = "right" -> "left"

\* the cell next to i in direction d, or 0 outside the grid
Neighbour(dim, i, d) ==
  CASE d = "up" -> IF RowOf(dim, i) > 1 THEN i - Cols(dim) ELSE 0
    [] d = "down" -> IF RowOf(dim, i) < Rows(dim) THEN i + Cols(dim) ELSE 0
    [] d = "left" -> IF ColOf(dim, i) > 1 THEN i - 1 ELSE 0
    [] d = "right" -> IF ColOf(dim, i) < Cols(dim) THEN i + 1 ELSE 0

CountCells(board, code) == Cardinality({i \in DOMAIN board : board[i] = code})

(***************************************************************************)
(* Boards the generator and the level loader hand to the environment       *)
(***************************************************************************)
\* rooms of 3 x 4, 3 x 3 and 2 x 3 cells; fixed = walls, floor and targets,
\* state = the same with boxes and the player placed
Levels ==
  { \* one box, the player starts on the target
    [dim |-> <<3, 4>>, n |-> 1,
     fixed |-> <<1, 1, 1, 1,  2, 1, 1, 1,  1, 1, 1, 1>>,
     state |-> <<1, 1, 1, 1,  5, 4, 1, 1,  1, 1, 1, 1>>],
    \* one box already on its target, with one wall
    [dim |-> <<3, 4>>, n |-> 1,
     fixed |-> <<0, 1, 1, 1,  1, 1, 2, 1,  1, 1, 1, 1>>,
     state |-> <<0, 1, 1, 1,  5, 1, 3, 1,  1, 1, 1, 1>>],
    \* two boxes in a room of 3 x 3 cells
    [dim |-> <<3, 3>>, n |-> 2,
     fixed |-> <<1, 1, 1,  1, 1, 2,  1, 1, 2>>,
     state |-> <<1, 1, 1,  5, 4, 2,  1, 4, 2>>],
    \* two boxes, one already on a target, with one wall
    [dim |-> <<3, 3>>, n |-> 2,
     fixed |-> <<0, 1, 1,  1, 2, 1,  1, 1, 2>>,
     state |-> <<0, 5, 1,  1, 3, 1,  1, 4, 2>>],
    \* no box and no target in a room of 2 x 3 cells
    [dim |-> <<2, 3>>, n |-> 0,
     fixed |-> <<1, 1, 1,  1, 1, 1>>,
     state |-> <<5, 1, 1,  1, 1, 1>>] }

\* generate_room(dim, num_boxes): any room of the requested size and number
\* of boxes
generate_room(dim, n) == {l \in Levels : l.dim = dim /\ l.n = n}

(***************************************************************************)
(* render(mode='raw') followed by build_board_from_raw                     *)
(***************************************************************************)
\* the four raw layers: walls and goals from room_fixed, boxes and player
\* from room_state
render(fixed, state) ==
  [arr_walls  |-> {i \in DOMAIN fixed : fixed[i] = TYPE_LOOKUP.walls},
   arr_goals  |-> {i \in DOMAIN fixed : fixed[i] = TYPE_LOOKUP.box_target},
   arr_boxes  |-> {i \in DOMAIN state : state[i] \in
                     {TYPE_LOOKUP.box_on_target, TYPE_LOOKUP.box_not_on_target}},
   arr_player |-> {i \in DOMAIN state : state[i] = TYPE_LOOKUP.player}]

\* first index of a non-empty set of cells (np.argwhere(...)[0])
First(S) == CHOOSE i \in S : \A j \in S : i <= j

\* the board without the player, and the player's cell
build_board_from_raw(raw, dim) ==
  [board |-> [i \in Cells(dim) |->
                IF i \in raw.arr_walls THEN TYPE_LOOKUP.walls
                ELSE IF i \in raw.arr_boxes /\ i \in raw.arr_goals
                  THEN TYPE_LOOKUP.box_on_target
                ELSE IF i \in raw.arr_boxes THEN TYPE_LOOKUP.box_not_on_target
                ELSE IF i \in raw.arr_goals THEN TYPE_LOOKUP.box_target
                ELSE TYPE_LOOKUP.empty_space],
   player |-> First(raw.arr_player)]

\* the board a caller observes
Observed(fixed, state, dim) == build_board_from_raw(render(fixed, state), dim).board

(***************************************************************************)
(* Player reachability (flood fill over the 4 neighbours)                  *)
(***************************************************************************)
\* the cells met so far grown by the free neighbours of the last ones, until
\* none is new (the new cells are bound once, by the set constructor)
RECURSIVE Fill(_, _, _, _)
Fill(dim, blocked, seen, frontier) ==
  IF frontier = {} THEN seen
  ELSE CHOOSE r \in
         {Fill(dim, blocked, seen \cup next, next) :
            next \in {{Neighbour(dim, i, d) : i \in frontier, d \in Directions}
                        \ (blocked \cup seen \cup {0})}} : TRUE

reachable_from(dim, start, blocked) == Fill(dim, blocked, {start}, {start})

(***************************************************************************)
(* Macro-move search for one box                                           *)
(***************************************************************************)
WallsOf(board) == {i \in DOMAIN board : board[i] = TYPE_LOOKUP.walls}

BoxesOf(board) ==
  {i \in DOMAIN board :
     board[i] \in {TYPE_LOOKUP.box_on_target, TYPE_LOOKUP.box_not_on_target}}

\* cell the box goes to when moved in direction d: b + d when pushing,
\* b - d when pulling
Destination(dim, b, d, fwd) ==
  Neighbour(dim, b, IF fwd THEN d ELSE Opposite(d))

\* cell the player has to stand on before the move: b - d when pushing,
\* b + d when pulling
Standing(dim, b, d, fwd) ==
  Neighbour(dim, b, IF fwd THEN Opposite(d) ELSE d)

\* the individual moves of the box from the search state s = <<b, p>> (box
\* on b, player on p); the player ends on b
Moves(dim, board, box, fwd, s) ==
  LET b == s[1]
      p == s[2]
      walls == WallsOf(board)
      others == BoxesOf(board) \ {box}
      ok(d, region) ==
        LET dest == Destination(dim, b, d, fwd)
            stand == Standing(dim, b, d, fwd)
        IN /\ dest # 0
           /\ stand # 0
           /\ dest \notin walls
           /\ dest \notin others
           /\ stand \in region
  IN UNION
       {{<<Destination(dim, b, d, fwd), b>> :
           d \in {e \in Directions : ok(e, region)}} :
          region \in {reachable_from(dim, p, walls \cup others \cup {b})}}

\* visited-set traversal of the search states
RECURSIVE Explore(_, _, _, _, _, _)
Explore(dim, board, box, fwd, visited, frontier) ==
  IF frontier = {} THEN visited
  ELSE LET next == UNION {Moves(dim, board, box, fwd, s) : s \in frontier}
                     \ visited
       IN Explore(dim, board, box, fwd, visited \cup next, next)

\* the board with the box taken from cell `box` and put on cell b
Relocate(board, box, b) ==
  LET removed == [board EXCEPT ![box] =
                    IF @ = TYPE_LOOKUP.box_on_target
                    THEN TYPE_LOOKUP.box_target
                    ELSE TYPE_LOOKUP.empty_space]
  IN [removed EXCEPT ![b] =
        IF @ = TYPE_LOOKUP.box_target
        THEN TYPE_LOOKUP.box_on_target
        ELSE TYPE_LOOKUP.box_not_on_target]

\* every state reached after 1 or more individual moves of the box, as a
\* pair (board, player), once per (box position, player position)
macro_moves(board, player, box, fwd, dim) ==
  LET start == <<box, player>>
      reached == Explore(dim, board, box, fwd, {start}, {start}) \ {start}
  IN {[n_board |-> Relocate(board, box, s[1]), n_player |-> s[2]] :
        s \in reached}

(***************************************************************************)
(* MacroSokobanEnv                                                         *)
(***************************************************************************)
\* `if self.states:` -- None and the empty list are both false
Truthy(st) == (~st.is_none) /\ st.list # {}

\* the player code written on the cell the box came from
ComputeStates_player_on_box_cell(fixed, state, fwd, dim) ==
  LET built == build_board_from_raw(render(fixed, state), dim)
      boxes == BoxesOf(built.board)
  IN UNION {{[m.n_board EXCEPT ![box] = TYPE_LOOKUP.player] :
               m \in macro_moves(built.board, built.player, box, fwd, dim)} :
            box \in boxes}

\* the body of reachable_states after the memo test: the macro-moves of
\* every box, the player placed on each resulting board
ComputeStates(fixed, state, fwd, dim) ==
  LET built == build_board_from_raw(render(fixed, state), dim)
      boxes == BoxesOf(built.board)
  IN UNION {{[m.n_board EXCEPT ![m.n_player] = TYPE_LOOKUP.player] :
               m \in macro_moves(built.board, built.player, box, fwd, dim)} :
            box \in boxes}

\* inherited from the base environment; the design's termination rule is
\* steps_taken >= steps_limit
_check_if_maxsteps(steps, limit) == steps >= limit

\* inherited from the base environment; the design's forward win is that no
\* BoxOffTarget remains
_check_if_all_boxes_on_target(fixed, state, dim) ==
  CountCells(Observed(fixed, state, dim), TYPE_LOOKUP.box_not_on_target) = 0

_check_if_all_boxes_not_on_target(fixed, state, dim) ==
  CountCells(Observed(fixed, state, dim), TYPE_LOOKUP.box_on_target) = 0

\* the win check with the mode left out
_check_if_won_any_mode(fwd, fixed, state, dim) ==
  \/ _check_if_all_boxes_on_target(fixed, state, dim)
  \/ _check_if_all_boxes_not_on_target(fixed, state, dim)

_check_if_won(fwd, fixed, state, dim) ==
  LET forward_win == fwd /\ _check_if_all_boxes_on_target(fixed, state, dim)
      backward_win == (~fwd) /\ _check_if_all_boxes_not_on_target(fixed, state, dim)
  IN forward_win \/ backward_win

\* done without the win
_check_if_done_limit_only(fwd, fixed, state, dim, steps, limit) ==
  _check_if_maxsteps(steps, limit)

\* done without the step limit
_check_if_done_won_only(fwd, fixed, state, dim, steps, limit) ==
  _check_if_won(fwd, fixed, state, dim)

_check_if_done(fwd, fixed, state, dim, steps, limit) ==
  _check_if_won(fwd, fixed, state, dim) \/ _check_if_maxsteps(steps, limit)

\* inherited from the base environment; the part of _calc_reward that
\* survives step is the recomputed boxes_on_target
_calc_reward(fixed, state, dim) ==
  CountCells(Observed(fixed, state, dim), TYPE_LOOKUP.box_on_target)

\* the step counter left as it is
StepsNotCounted(n) == n

\* `self.num_env_steps += 1`
StepsAfterStep(n) == n + 1

\* step keeping the memoized list
StatesKept == states

\* `self.states = None` in step
StatesAfterStep == None

\* the memo keeps one board only, the caller gets them all
SaveAndReturn_partial(computed) ==
  [saved |-> ListOf(IF computed = {} THEN {}
                    ELSE {CHOOSE b \in computed : TRUE}),
   result |-> ListOf(computed)]

\* `self.states = states; return self.states`
SaveAndReturn(computed) ==
  [saved |-> ListOf(computed), result |-> ListOf(computed)]

\* the backward rewrite of reset: targets receive a box, boxes off target
\* disappear
PlaceBoxesOnTargets(state) ==
  [i \in DOMAIN state |->
     IF state[i] = TYPE_LOOKUP.box_target THEN TYPE_LOOKUP.box_on_target
     ELSE IF state[i] = TYPE_LOOKUP.box_not_on_target THEN TYPE_LOOKUP.empty_space
     ELSE state[i]]

\* room_fixed as _load_board derives it from the loaded board
FixedOf(board) ==
  [i \in DOMAIN board |->
     IF board[i] \in {TYPE_LOOKUP.walls, TYPE_LOOKUP.box_target,
                      TYPE_LOOKUP.empty_space}
     THEN board[i] ELSE TYPE_LOOKUP.empty_space]

PlayerOf(state) == First({i \in DOMAIN state : state[i] = TYPE_LOOKUP.player})

\* the reset of the base environment with the room l: the board, the player,
\* the step counter and the on-target count are initialised from it
base_reset(l) ==
  [room_fixed |-> l.fixed,
   room_state |-> l.state,
   player_position |-> PlayerOf(l.state),
   num_env_steps |-> 0,
   reward_last |-> 0,
   boxes_on_target |-> CountCells(l.state, TYPE_LOOKUP.box_on_target)]

\* what reset() leaves behind: the base reset, and in backward mode the
\* boxes put on the targets
AfterReset(fwd, n, l) ==
  LET base == base_reset(l)
  IN IF fwd THEN base
     ELSE [base EXCEPT !.room_state = PlaceBoxesOnTargets(@),
                       !.boxes_on_target = n]

\* reset() with the room l.  self.states is not assigned.
ResetTo(l) ==
  /\ room_fixed' = AfterReset(forward, num_boxes, l).room_fixed
  /\ room_state' = AfterReset(forward, num_boxes, l).room_state
  /\ player_position' = AfterReset(forward, num_boxes, l).player_position
  /\ num_env_steps' = AfterReset(forward, num_boxes, l).num_env_steps
  /\ reward_last' = AfterReset(forward, num_boxes, l).reward_last
  /\ boxes_on_target' = AfterReset(forward, num_boxes, l).boxes_on_target
  /\ last' = "reset"
  /\ last_change' = "reset"
  /\ source' = "reset"
  /\ done' = FALSE
  /\ info' = EmptyInfo
  /\ calls' = 0
  /\ listed' = TRUE
  /\ computations' = 0

\* no call of from_file is under way
FileIdle ==
  /\ dataset_name = ""
  /\ level = <<>>
  /\ raised = "none"

\* no call of reachable_states() is under way
SearchIdle ==
  /\ phase = "idle"
  /\ pending = {}
  /\ box_searched = 0
  /\ explored = {}
  /\ to_visit = {}
  /\ found = {}

\* MacroSokobanEnv(forward, dim_room, max_steps, num_boxes), reset = True:
\* the constructor ends with a call of reset()
Constructed ==
  /\ forward \in BOOLEAN
  /\ max_steps \in 1..MaxSteps
  /\ \E l \in Levels :
       /\ dim_room = l.dim
       /\ num_boxes = l.n
  /\ states = None
  /\ \E l \in generate_room(dim_room, num_boxes) :
       /\ room_fixed = AfterReset(forward, num_boxes, l).room_fixed
       /\ room_state = AfterReset(forward, num_boxes, l).room_state
       /\ player_position = AfterReset(forward, num_boxes, l).player_position
       /\ num_env_steps = AfterReset(forward, num_boxes, l).num_env_steps
       /\ reward_last = AfterReset(forward, num_boxes, l).reward_last
       /\ boxes_on_target = AfterReset(forward, num_boxes, l).boxes_on_target
  /\ last = "reset"
  /\ last_change = "reset"
  /\ source = "reset"
  /\ done = FALSE
  /\ info = EmptyInfo
  /\ returned = None
  /\ calls = 0
  /\ listed = TRUE
  /\ computations = 0

Init ==
  /\ Constructed
  /\ FileIdle
  /\ SearchIdle

reset ==
  /\ \E l \in generate_room(dim_room, num_boxes) : ResetTo(l)
  /\ returned' = None
  /\ UNCHANGED <<forward, dim_room, max_steps, num_boxes, states>>
  /\ UNCHANGED <<fileVars, searchVars>>

\* the body of step(room_state): no test of the candidate precedes the
\* assignments
StepWith(candidate) ==
  LET steps == StepsAfterStep(num_env_steps)
      isdone == _check_if_done(forward, room_fixed, candidate, dim_room,
                               steps, max_steps)
  IN /\ num_env_steps' = steps
     /\ room_state' = candidate
     /\ states' = StatesAfterStep
     /\ boxes_on_target' = _calc_reward(room_fixed, candidate, dim_room)
     /\ done' = isdone
     /\ info' = IF isdone
          THEN [maxsteps_used |-> _check_if_maxsteps(steps, max_steps),
                all_boxes_on_target |->
                  _check_if_all_boxes_on_target(room_fixed, candidate, dim_room),
                all_boxes_not_on_target |->
                  _check_if_all_boxes_not_on_target(room_fixed, candidate, dim_room)]
          ELSE EmptyInfo
     /\ reward_last' =
          IF _check_if_won(forward, room_fixed, candidate, dim_room)
          THEN 1 ELSE 0
     /\ last' = "step"
     /\ last_change' = "step"
     /\ calls' = 0
     /\ computations' = 0
     /\ returned' = None
     /\ UNCHANGED <<forward, dim_room, max_steps, num_boxes, room_fixed,
                    player_position, source>>
     /\ UNCHANGED <<fileVars, searchVars>>

\* step(room_state) with a candidate of the list reachable_states() just
\* returned
step ==
  /\ last = "reachable_states"
  /\ num_env_steps < MaxEnvSteps
  /\ \E candidate \in returned.list : StepWith(candidate)
  /\ listed' = TRUE

\* boards of the environment's size a caller may pass without having got
\* them from reachable_states()
OtherBoards == {l.state : l \in generate_room(dim_room, num_boxes)}

\* step(room_state) with a board that is not in the list reachable_states()
\* just returned
step_unlisted ==
  /\ last = "reachable_states"
  /\ num_env_steps < MaxEnvSteps
  /\ \E candidate \in OtherBoards \ returned.list : StepWith(candidate)
  /\ listed' = FALSE

reachable_states ==
  /\ calls < MaxCalls
  /\ calls' = calls + 1
  /\ IF Truthy(states)
     THEN /\ returned' = states
          /\ UNCHANGED <<states, computations>>
     ELSE LET r == SaveAndReturn(ComputeStates(room_fixed, room_state,
                                               forward, dim_room))
          IN /\ states' = r.saved
             /\ returned' = r.result
             /\ computations' = computations + 1
  /\ last' = "reachable_states"
  /\ UNCHANGED <<forward, dim_room, max_steps, num_boxes, room_fixed,
                 room_state, player_position, num_env_steps, boxes_on_target,
                 reward_last, done, info, last_change, source, listed>>
  /\ UNCHANGED <<fileVars, searchVars>>

\* the assignments of _load_board(board)
LoadBoard(board) ==
  /\ player_position' = PlayerOf(board)
  /\ num_env_steps' = 0
  /\ reward_last' = 0
  /\ boxes_on_target' = CountCells(board, TYPE_LOOKUP.box_on_target)
  /\ room_state' = board
  /\ room_fixed' = FixedOf(board)

\* _load_board(board) with a board of the environment's size
_load_board ==
  /\ \E l \in generate_room(dim_room, num_boxes) : LoadBoard(l.state)
  /\ last' = "load"
  /\ last_change' = "load"
  /\ source' = "load"
  /\ calls' = 0
  /\ listed' = TRUE
  /\ done' = FALSE
  /\ info' = EmptyInfo
  /\ returned' = None
  /\ computations' = 0
  /\ UNCHANGED <<forward, dim_room, max_steps, num_boxes, states>>
  /\ UNCHANGED <<fileVars, searchVars>>

Next == reset \/ step \/ step_unlisted \/ reachable_states \/ _load_board

Spec == Init /\ [][Next]_vars

(***************************************************************************)
(* MacroSokobanEnv.from_file                                               *)
(***************************************************************************)
\* dataset names a caller passes
DatasetNames ==
  {"MicroSokoban", "microsokoban", "XSokoban", "XSOKOBAN", "boxoban"}

\* str.lower() on the names above
lower(name) ==
  CASE name = "MicroSokoban" -> "microsokoban"
    [] name = "XSokoban" -> "xsokoban"
    [] name = "XSOKOBAN" -> "xsokoban"
    [] OTHER -> name

\* XSokoban_lvl_to_raw / MicroSokoban_lvl_to_raw followed by
\* build_board_from_raw: the boards stored in the level files
StoredBoards == {[dim |-> l.dim, state |-> l.state] : l \in Levels}

\* param_env_from_board(board): the pair (dim_room, num_boxes)
param_env_from_board(board) ==
  <<board.dim,
    CountCells(board.state, TYPE_LOOKUP.box_on_target)
      + CountCells(board.state, TYPE_LOOKUP.box_not_on_target)>>

\* before from_file is called there is no environment; forward, max_steps,
\* dataset_name and the level are its arguments
InitFile ==
  /\ forward \in BOOLEAN
  /\ max_steps \in 1..MaxSteps
  /\ dataset_name \in DatasetNames
  /\ level \in StoredBoards
  /\ raised = "none"
  /\ dim_room = <<0, 0>>
  /\ num_boxes = 0
  /\ room_fixed = <<>>
  /\ room_state = <<>>
  /\ player_position = 0
  /\ num_env_steps = 0
  /\ boxes_on_target = 0
  /\ reward_last = 0
  /\ states = None
  /\ returned = None
  /\ last = "none"
  /\ last_change = "none"
  /\ source = "none"
  /\ done = FALSE
  /\ info = EmptyInfo
  /\ calls = 0
  /\ listed = TRUE
  /\ computations = 0
  /\ SearchIdle

\* from_file(dataset_name, level_id, forward, max_steps): the assertion on
\* the name, the loaded board, `dim_room, num_boxes, num_gen_steps =
\* param_env_from_board(board)`, the constructor with reset = False and
\* _load_board(board)
from_file ==
  /\ last = "none"
  /\ last' = "from_file"
  /\ IF lower(dataset_name) \notin {"microsokoban", "xsokoban"}
     THEN /\ raised' = "AssertionError"
          /\ UNCHANGED <<dim_room, num_boxes, room_fixed, room_state,
                         player_position, num_env_steps, boxes_on_target,
                         reward_last, last_change, source>>
     ELSE LET params == param_env_from_board(level)
          IN IF Len(params) # 3
             THEN /\ raised' = "ValueError"
                  /\ UNCHANGED <<dim_room, num_boxes, room_fixed, room_state,
                                 player_position, num_env_steps,
                                 boxes_on_target, reward_last, last_change,
                                 source>>
             ELSE /\ raised' = "none"
                  /\ dim_room' = params[1]
                  /\ num_boxes' = params[2]
                  /\ LoadBoard(level.state)
                  /\ last_change' = "load"
                  /\ source' = "load"
  /\ UNCHANGED <<forward, max_steps, dataset_name, level, states, returned,
                 done, info, calls, listed, computations, searchVars>>

NextFile == from_file

SpecFile == InitFile /\ [][NextFile]_vars

(***************************************************************************)
(* One call of reachable_states() on a freshly constructed environment,    *)
(* loop iteration by loop iteration                                        *)
(***************************************************************************)
\* the variables of the environment proper
envVars == <<forward, dim_room, max_steps, num_boxes,
             room_fixed, room_state, player_position,
             num_env_steps, boxes_on_target, states,
             reward_last, last, done, info, returned, last_change, source,
             calls, listed, computations>>

\* the board and the player the call searches from
Built == build_board_from_raw(render(room_fixed, room_state), dim_room)

\* the call has passed the memo test (self.states is None) and has collected
\* the boxes of the board
InitSearch ==
  /\ Constructed
  /\ FileIdle
  /\ phase = "boxes"
  /\ pending = BoxesOf(Built.board)
  /\ box_searched = 0
  /\ explored = {}
  /\ to_visit = {}
  /\ found = {}

\* every search state of a layer taken as new
NewStates_all(next, known) == next

\* the search states of a layer that were not visited before
NewStates(next, known) == next \ known

\* `for box in boxes:` -- the search of the next box starts from the box and
\* the player where they are
search_begin ==
  /\ phase = "boxes"
  /\ box_searched = 0
  /\ pending # {}
  /\ LET b == First(pending)
     IN /\ box_searched' = b
        /\ pending' = pending \ {b}
        /\ explored' = {<<b, Built.player>>}
        /\ to_visit' = {<<b, Built.player>>}
  /\ UNCHANGED <<phase, found, envVars, fileVars>>

\* one layer of the traversal: the individual moves from the search states
\* found last, those visited before left out
search_expand ==
  /\ phase = "boxes"
  /\ box_searched # 0
  /\ to_visit # {}
  /\ \E next \in {NewStates(UNION {Moves(dim_room, Built.board, box_searched,
                                          forward, s) : s \in to_visit},
                             explored)} :
       /\ explored' = explored \cup next
       /\ to_visit' = next
  /\ UNCHANGED <<phase, pending, box_searched, found, envVars, fileVars>>

\* the traversal of the box is exhausted: its results, the player placed on
\* each board, are appended
search_end ==
  /\ phase = "boxes"
  /\ box_searched # 0
  /\ to_visit = {}
  /\ found' = found \cup
       {[Relocate(Built.board, box_searched, s[1])
           EXCEPT ![s[2]] = TYPE_LOOKUP.player] :
          s \in explored \ {<<box_searched, Built.player>>}}
  /\ box_searched' = 0
  /\ explored' = {}
  /\ UNCHANGED <<phase, pending, to_visit, envVars, fileVars>>

\* `self.states = states; return self.states`
search_return ==
  /\ phase = "boxes"
  /\ box_searched = 0
  /\ pending = {}
  /\ phase' = "returned"
  /\ states' = SaveAndReturn(found).saved
  /\ returned' = SaveAndReturn(found).result
  /\ last' = "reachable_states"
  /\ calls' = calls + 1
  /\ computations' = computations + 1
  /\ UNCHANGED <<forward, dim_room, max_steps, num_boxes, room_fixed,
                 room_state, player_position, num_env_steps, boxes_on_target,
                 reward_last, done, info, last_change, source, listed>>
  /\ UNCHANGED <<pending, box_searched, explored, to_visit, found, fileVars>>

NextSearch == search_begin \/ search_expand \/ search_end \/ search_return

\* the call runs synchronously: a loop iteration that can be taken is taken
SpecSearch == InitSearch /\ [][NextSearch]_vars /\ WF_vars(NextSearch)

(***************************************************************************)
(* Properties                                                              *)
(***************************************************************************)
\* the macro-move list of the current board
Fresh == ListOf(ComputeStates(room_fixed, room_state, forward, dim_room))

ObservedNow == Observed(room_fixed, room_state, dim_room)

WonNow ==
  IF forward
  THEN CountCells(ObservedNow, TYPE_LOOKUP.box_not_on_target) = 0
  ELSE CountCells(ObservedNow, TYPE_LOOKUP.box_on_target) = 0

\* C1: a reachable_states() call that follows a step returns the macro-move
\* set of the board the step installed, never the set memoized before it.
C1_StepInvalidatesMemo ==
  (last = "reachable_states" /\ last_change = "step") => returned = Fresh

\* reachable_states() answered after a step, which found the non-empty memo
\* its candidate came from
C1_Witness ==
  /\ last = "reachable_states"
  /\ last_change = "step"
  /\ num_env_steps > 0
  /\ returned.list # {}

\* C2: a reachable_states() call that follows a reset returns the macro-move
\* set of the board that reset produced, not the set memoized before it.
C2_ResetClearsMemo ==
  (last = "reachable_states" /\ last_change = "reset") => returned = Fresh

C4_DoneAbsorbing ==
  [][(done /\ num_env_steps' = num_env_steps + 1) => done']_vars

\* C5: the reward of a step is 0 or 1, and 1 exactly when the new board has
\* no BoxOffTarget cell (forward) or no BoxOnTarget cell (backward).
C5_RewardRule ==
  last = "step" =>
    /\ reward_last \in {0, 1}
    /\ (reward_last = 1) <=> WonNow

\* a step that ends the episode through the step limit pays nothing
C5_Witness ==
  /\ last = "step"
  /\ done
  /\ reward_last = 0
  /\ num_env_steps = max_steps

\* C6: the step that brings the counter to steps_limit returns done and
\* info.maxsteps_used, whatever its reward and the mode.
C6_StepLimit ==
  (last = "step" /\ num_env_steps = max_steps) =>
    /\ done
    /\ info # EmptyInfo
    /\ info.maxsteps_used

\* the single step of an environment with steps_limit = 1, paying a reward
C6_Witness ==
  /\ last = "step"
  /\ max_steps = 1
  /\ num_env_steps = 1
  /\ reward_last = 1
  /\ done

\* C7: after a backward reset boxes_on_target is num_boxes, no BoxOffTarget
\* cell exists and every target cell holds a box.
C7_BackwardReset ==
  (last = "reset" /\ ~forward) =>
    /\ boxes_on_target = num_boxes
    /\ CountCells(ObservedNow, TYPE_LOOKUP.box_not_on_target) = 0
    /\ CountCells(ObservedNow, TYPE_LOOKUP.box_target) = 0

\* C8: on every board reached from a reset by legal steps the boxes number
\* num_boxes and the targets number num_boxes.
C8_Conservation ==
  source = "reset" =>
    /\ CountCells(ObservedNow, TYPE_LOOKUP.box_on_target)
         + CountCells(ObservedNow, TYPE_LOOKUP.box_not_on_target) = num_boxes
    /\ CountCells(ObservedNow, TYPE_LOOKUP.box_target)
         + CountCells(ObservedNow, TYPE_LOOKUP.box_on_target) = num_boxes

C10_Deterministic ==
  [][(last = "reachable_states" /\ last' = "reachable_states")
       => returned'.list = returned.list]_vars

\* a second call in a row on a board without any macro-move: the empty
\* list was stored and computed again
C10_Witness ==
  /\ last = "reachable_states"
  /\ calls = 2
  /\ returned = ListOf({})

\* C11 as stated: a step whose candidate is not in the list reachable_states()
\* most recently returned is rejected and leaves the board, the step counter,
\* the counter of boxes on targets and the memoized list as they were.
C11_UnlistedStepRejected ==
  [][(last = "reachable_states" /\ last' = "step"
        /\ room_state' \notin returned.list)
       => UNCHANGED <<room_state, num_env_steps, boxes_on_target, states>>]_vars

\* C11 amended: a step whose candidate is not in the list reachable_states()
\* most recently returned is carried out like any other step: the candidate
\* becomes the board, the step counter grows by one and the memoized list is
\* cleared.
C11_UnlistedStepApplied ==
  [][(last = "reachable_states" /\ last' = "step"
        /\ room_state' \notin returned.list)
       => /\ room_state' \in OtherBoards
          /\ num_env_steps' = num_env_steps + 1
          /\ states' = None]_vars

C11_Witness ==
  /\ last = "step"
  /\ ~listed
  /\ num_env_steps = 2
  /\ states = None

\* C12 as stated: from_file with a valid dataset name, in any letter case,
\* returns without error an environment whose board is the loaded level, whose
\* dimensions and number of boxes are those of param_env_from_board and whose
\* step counter is 0.
C12_FromFileReturns ==
  (last = "from_file" /\ lower(dataset_name) \in {"microsokoban", "xsokoban"})
    => /\ raised = "none"
       /\ room_state = level.state
       /\ dim_room = param_env_from_board(level)[1]
       /\ num_boxes = param_env_from_board(level)[2]
       /\ num_env_steps = 0

\* C13 as stated: on a board of an environment with num_boxes = 0 the win
\* check reports a win in forward mode and no win in backward mode, so that a
\* backward step on such a board pays reward 0 and is done only through the
\* step limit.
C13_ZeroBoxes ==
  num_boxes = 0
    => /\ _check_if_won(forward, room_fixed, room_state, dim_room) <=> forward
       /\ (last = "step" /\ ~forward)
            => /\ reward_last = 0
               /\ done <=> _check_if_maxsteps(num_env_steps, max_steps)

\* C14 as stated: in an environment with num_boxes >= 1 a step that returns
\* done = true never reports all_boxes_on_target and all_boxes_not_on_target
\* both true, and a step that returns done = false reports none of the three
\* flags.
C14_InfoFlags ==
  last = "step"
    => /\ (done /\ num_boxes >= 1)
            => ~(info.all_boxes_on_target /\ info.all_boxes_not_on_target)
       /\ (~done) => info = EmptyInfo

\* C15 as stated: right after _load_board(board) the fixed layout has a wall
\* exactly where the board has one and a target exactly where the board has a
\* free target or a box on a target.
C15_FixedLayoutKeepsTargets ==
  last = "load"
    => \A i \in DOMAIN room_state :
         /\ room_fixed[i] = TYPE_LOOKUP.walls
              <=> room_state[i] = TYPE_LOOKUP.walls
         /\ room_fixed[i] = TYPE_LOOKUP.box_target
              <=> room_state[i] \in {TYPE_LOOKUP.box_target,
                                     TYPE_LOOKUP.box_on_target}

\* C16 as stated: between two consecutive changes of the board the body of
\* reachable_states() that searches the macro-moves of every box runs at most
\* once, however often reachable_states() is called, the empty result
\* included.
C16_ComputedOnce == computations <= 1

\* C17: the search of every box comes to an end, also when the box can be
\* moved round a cycle, and the call of reachable_states() returns.
C17_SearchTerminates == <>(phase = "returned")

\* the traversal of a box is exhausted with the box met again on its
\* starting cell, the player elsewhere
C17_Witness ==
  /\ phase = "boxes"
  /\ box_searched # 0
  /\ to_visit = {}
  /\ \E s \in explored : s[1] = box_searched /\ s[2] # Built.player

\* C18 as stated: boxes_on_target always equals the number of BoxOnTarget
\* cells of the current board: after _load_board, after reset() in either mode
\* and after every step with a candidate from reachable_states().
C18_BoxesOnTargetCount ==
  listed => boxes_on_target = CountCells(ObservedNow, TYPE_LOOKUP.box_on_target)

\* C19 as stated: player_position always designates the player cell of the
\* current board; after step(candidate), the candidate taken from
\* reachable_states(), it is the player cell of the candidate.
C19_PlayerPosition == listed => player_position = PlayerOf(room_state)

====
